---- MODULE Spec2Model ----
(***************************************************************************)
(* The provider cache gateway of backend/APICalls.py: the cache-first      *)
(* orchestrator (ProviderClient.getCachedOrFetch), the retrying network    *)
(* executor (ProviderClient.safeRequest), the daily usage ledger           *)
(* (get_usage / add_usage / under_budget over the ApiUsage table) and the  *)
(* token bucket (SimpleRateLimiter).  The module-level names under_budget, *)
(* add_usage, limiters, MAX_STALE are bound twice in the file; Python      *)
(* resolves them at call time to the later binding (lines 620-692), which  *)
(* is the one modelled.                                                    *)
(*                                                                         *)
(* Time is a discrete clock `now` (one tick = one second of the source's   *)
(* clocks, dj_tz.now() and time.monotonic()).  The freshness and staleness *)
(* windows, the day length and the budget are scaled down to a few ticks;  *)
(* they are the bounds of the model.                                       *)
(***************************************************************************)
EXTENDS Integers, Sequences, FiniteSets, TLC

----------------------------------------------------------------------------
(* Bounds of the model. *)

\* callers of the concurrent specifications
NCallers == 2
\* the clock of the orchestrator specification stops at MaxTime
MaxTime == 3
\* the clock of the executor specification stops at SrHorizon: three backoff
\* sleeps (1 + 2 + 4 ticks) fit
SrHorizon == 7
\* the clock of the concurrent specification stops at ConcHorizon
ConcHorizon == 2
\* the clock of the limiter specifications stops at LimHorizon
LimHorizon == 4
\* acquire() calls one caller makes in the limiter specifications
MaxAcquires == 3
\* ttlSeconds is drawn from 1..MaxTtl
MaxTtl == 2
\* MAX_STALE["weather"], ["flight"], ["geo"] scaled to ticks
MaxStaleWeather == 3
MaxStaleFlight == 2
MaxStaleGeo == 4
\* DAILY_BUDGETS[provider] of every budgeted provider, scaled
MaxBudget == 2
\* ticks per UTC calendar day
DayLen == 3

\* the largest maxRetries a caller passes to safeRequest
MaxTries == 6

\* how long the clock runs while the backoff is followed
BackoffHorizon == 31

\* the most keyword arguments a caller passes to fetchAviationStackFlight
MaxArgs == 2

\* the longest query string a caller passes
MaxQueryLen == 2

----------------------------------------------------------------------------
(* Configuration. *)

Providers == {"openweathermap", "aviationweather", "aviationstack", "opensky", "openstreetmap"}

\* the cache keys callers ask for, and a key only earlier processes used
Keys == {"k1"}

OtherKey == "k2"

Callers == 1..NCallers

\* ProviderClient subclasses: the category attribute of each client class.
Category(p) ==
    CASE p \in {"openweathermap", "aviationweather"} -> "weather"
      [] p \in {"aviationstack", "opensky"} -> "flight"
      [] OTHER -> "geo"

\* The other provider writing to the same table, if any (AirportWeather and
\* Flight are shared by two providers each, MapsGeo has one).
Sibling(p) ==
    CASE p = "openweathermap" -> "aviationweather"
      [] p = "aviationweather" -> "openweathermap"
      [] p = "aviationstack" -> "opensky"
      [] p = "opensky" -> "aviationstack"
      [] OTHER -> "none"

MAX_STALE(cat) ==
    CASE cat = "weather" -> MaxStaleWeather
      [] cat = "flight" -> MaxStaleFlight
      [] OTHER -> MaxStaleGeo

\* DAILY_BUDGETS.get(provider): None (here -1) for openstreetmap, which has no entry.
NoBudget == -1

DefaultBudgets ==
    [p \in Providers |-> IF p = "openstreetmap" THEN NoBudget ELSE MaxBudget]

\* the largest cost asked of acquire(), in tokens
MaxCost == 2

\* safeRequest(..., maxRetries=3): no caller passes another value.
MaxRetries == 3

\* backoff = min(backoff * 2, 16)
BackoffCap == 16

----------------------------------------------------------------------------
(* Payloads.  A raw value is what safeRequest returns: a parsed JSON body or *)
(* an error dict.  Only what the gateway inspects is kept: whether it is a  *)
(* dict, the value under its "error" key, and its content (v = 0: empty).   *)

NoKey == "<absent>"

Obj(n) == [shape |-> "dict", err |-> NoKey, v |-> n]

\* {}
EmptyDict == Obj(0)

\* {"text": resp.text}, line 209
TextDict == Obj(9)

\* a non-empty JSON array, e.g. the geocoder's list of places
ListBody == [shape |-> "list", err |-> NoKey, v |-> 1]

\* a 2xx body that is a dict with a non-empty "error" member
ErrBody == [shape |-> "dict", err |-> "provider_error", v |-> 1]

\* {"error": msg}, lines 187 and 218
ErrResult(msg) == [shape |-> "dict", err |-> msg, v |-> 1]

\* what resp.json() can parse to, and "unparseable" for a body that is not JSON
Bodies == {Obj(1), EmptyDict, ListBody, ErrBody}

\* Python truthiness of a raw value (`raw or {}`): an empty container is falsy.
Falsy(r) == r.err = NoKey /\ r.v = 0

OrEmpty(r) == IF Falsy(r) THEN EmptyDict ELSE r

\* isinstance(raw, dict) and raw.get("error"): the empty string is falsy.
IsError(r) == r.shape = "dict" /\ r.err \notin {NoKey, ""}

\* The columns a flight client derives from a raw payload (the `norm` dict of
\* _upsert and the same expressions in _normalizeForReturn): None (here 0 and
\* "null") unless the payload lists a flight.  raw.get raises on a non-dict.
NullFields == [flightNumber |-> 0, status |-> "null"]

NoFields == [flightNumber |-> -1, status |-> "-"]

FlightFields(p, r) ==
    IF r.err = NoKey /\ r.v > 0
    THEN [flightNumber |-> r.v,
          status |-> IF p = "opensky" THEN "airborne" ELSE "scheduled"]
    ELSE NullFields

----------------------------------------------------------------------------
(* SimpleRateLimiter.  Tokens are counted in units of 1/610 token, so that  *)
(* every configured rate (2, 0.8, 1/61, 0.2, 0.5 per second) is integral.   *)

TokUnit == 61 * 10

LimRate(p) ==
    CASE p = "openweathermap" -> 2 * TokUnit
      [] p = "aviationweather" -> (8 * TokUnit) \div 10
      [] p = "aviationstack" -> TokUnit \div 61
      [] p = "opensky" -> (2 * TokUnit) \div 10
      [] OTHER -> (5 * TokUnit) \div 10

LimCapacity(p) == IF p = "openweathermap" THEN 2 * TokUnit ELSE TokUnit

Min(a, b) == IF a <= b THEN a ELSE b

Max(a, b) == IF a >= b THEN a ELSE b

CeilDiv(a, b) == (a + b - 1) \div b

\* acquire, lines 649-652: refill for the time elapsed since `last`
Refill(l, p, t) ==
    [tokens |-> Min(LimCapacity(p), l.tokens + (t - l.last) * LimRate(p)),
     last |-> t]

\* acquire, line 656: the wait for the deficit, in whole ticks
SleepTime(l, p, cost) == Max(0, CeilDiv(cost - l.tokens, LimRate(p)))

----------------------------------------------------------------------------
(* State. *)

VARIABLES
    now,      \* the clock: dj_tz.now() and time.monotonic()
    self,     \* providerName of the client the behaviour follows
    budgets,  \* DAILY_BUDGETS, read from the environment when the module loads
    earlier,  \* history: what the call before this one returned to its caller
    store,    \* the rows of the Flight / AirportWeather / MapsGeo tables, in pk order
    usage,    \* the rows of the ApiUsage table, in pk order
    lim,      \* limiters[self]: [tokens, last]
    pc,       \* per caller: where it is in getCachedOrFetch / safeRequest / add_usage
    mode,     \* per caller: which entry point it called
    key,      \* per caller: cacheKey
    ttl,      \* per caller: ttlSeconds
    raw,      \* per caller: the value safeRequest returned
    attempt,  \* per caller: iterations of `for _ in range(maxRetries)` started
    backoff,  \* per caller: safeRequest's backoff
    lastErr,  \* per caller: str(last_error), or None
    wake,     \* per caller: when its time.sleep ends
    au,       \* per caller: add_usage's day key and the pk of the row it got
    resp,     \* per caller: what its last call returned
    obs,      \* per caller: what its getCachedOrFetch call did (history)
    cnt,      \* per caller: what its safeRequest call did (history)
    prev,     \* per caller: summary of its previous getCachedOrFetch call (history)
    acq,      \* per caller: acquire's locals: now, elapsed and the value read last
    kwargs,   \* per caller: the keyword arguments of its fetchAviationStackFlight call
    maxRetries \* per caller: safeRequest's maxRetries argument (3 unless passed)

callVars == <<mode, key, ttl>>

srVars == <<raw, attempt, backoff, lastErr, wake, au>>

histVars == <<obs, cnt, prev>>

vars == <<now, self, budgets, earlier, kwargs, maxRetries, store, usage, lim, pc, mode, key, ttl, raw, attempt, backoff,
          lastErr, wake, au, resp, obs, cnt, prev, acq>>

None == "<None>"

\* DAILY_BUDGETS.get(provider)
DAILY_BUDGETS(p) == budgets[p]

----------------------------------------------------------------------------
(* The usage ledger, lines 673-692. *)

\* A faulty day key that never changes.
TodayKey_frozen(t) == 0

\* _today_key(): the UTC calendar date of `now`
TodayKey(t) == t \div DayLen

UsageRows(p, d) == {i \in 1..Len(usage) : usage[i].provider = p /\ usage[i].yyyymmdd = d}

FirstIdx(S) == CHOOSE i \in S : \A j \in S : i <= j

\* get_usage: .filter(provider, yyyymmdd).first(), 0 without a row
get_usage(p) ==
    LET S == UsageRows(p, TodayKey(now))
    IN IF S = {} THEN 0 ELSE usage[FirstIdx(S)].count

\* A faulty check that still lets a call through at usage = budget.
under_budget_inclusive(p) ==
    LET budget == DAILY_BUDGETS(p)
    IN IF budget = NoBudget \/ budget = 0 THEN TRUE ELSE get_usage(p) <= budget

\* under_budget: a budget of None or 0 is falsy
under_budget(p) ==
    LET budget == DAILY_BUDGETS(p)
    IN IF budget = NoBudget \/ budget = 0 THEN TRUE ELSE get_usage(p) < budget

----------------------------------------------------------------------------
(* Cache plumbing, lines 221-262 and the _upsert / _normalizeForReturn of  *)
(* the provider clients.                                                   *)

NoResp == [kind |-> "none", cache |-> "-",
           data |-> [wrap |-> "-", body |-> EmptyDict, fields |-> NoFields]]

Raised == [kind |-> "raise", cache |-> "-",
           data |-> [wrap |-> "-", body |-> EmptyDict, fields |-> NoFields]]

\* A faulty constructor that labels every response a miss.
ProviderResponse_miss(d, c) == [kind |-> "resp", cache |-> "miss", data |-> d]

ProviderResponse(d, c) == [kind |-> "resp", cache |-> c, data |-> d]

Rows(p, k) ==
    {i \in 1..Len(store) :
        /\ store[i].table = Category(p)
        /\ store[i].key = k
        /\ store[i].providerSource = p}

\* recency(row.lastUpdated)
Age(row) == now - row.lastUpdated

\* the payload _get_cached builds from a row
HitData(p, row) ==
    CASE Category(p) = "geo" ->
            [wrap |-> "result", body |-> OrEmpty(row.json), fields |-> NoFields]
      [] Category(p) = "weather" ->
            [wrap |-> "weather", body |-> OrEmpty(row.json), fields |-> NoFields]
      [] OTHER ->
            [wrap |-> "flight", body |-> OrEmpty(row.json), fields |-> row.fields]

\* Faulty lookups, to see that the properties below tell them from the code's:
\* one that counts a row fresh a second too short, one that never serves a
\* stale row.
_get_cached_strict(p, k, t, allow_stale) ==
    LET S == Rows(p, k)
    IN IF S = {} THEN NoResp
       ELSE LET row == store[FirstIdx(S)]
            IN IF Age(row) + 1 < t THEN ProviderResponse(HitData(p, row), "hit")
               ELSE IF allow_stale /\ Age(row) < MAX_STALE(Category(p))
                    THEN ProviderResponse(HitData(p, row), "stale")
                    ELSE NoResp

_get_cached_no_stale(p, k, t, allow_stale) ==
    LET S == Rows(p, k)
    IN IF S = {} THEN NoResp
       ELSE LET row == store[FirstIdx(S)]
            IN IF Age(row) < t THEN ProviderResponse(HitData(p, row), "hit")
               ELSE NoResp

\* A faulty lookup that serves an aged row whatever its age.
_get_cached_any_age(p, k, t, allow_stale) ==
    LET S == Rows(p, k)
    IN IF S = {} THEN NoResp
       ELSE LET row == store[FirstIdx(S)]
            IN IF Age(row) < t THEN ProviderResponse(HitData(p, row), "hit")
               ELSE IF allow_stale
                    THEN ProviderResponse(HitData(p, row), "stale")
                    ELSE NoResp

_get_cached(p, k, t, allow_stale) ==
    LET S == Rows(p, k)
    IN IF S = {} THEN NoResp
       ELSE LET row == store[FirstIdx(S)]
            IN IF Age(row) < t THEN ProviderResponse(HitData(p, row), "hit")
               ELSE IF allow_stale /\ Age(row) < MAX_STALE(Category(p))
                    THEN ProviderResponse(HitData(p, row), "stale")
                    ELSE NoResp

\* A faulty normalization that wraps the raw value as it is (no `or {}`).
_normalizeForReturn_as_is(p, r) ==
    CASE Category(p) = "weather" ->
            [wrap |-> "weather", body |-> r, fields |-> NoFields]
      [] Category(p) = "geo" ->
            [wrap |-> "result", body |-> r, fields |-> NoFields]
      [] OTHER ->
            [wrap |-> "flight", body |-> r, fields |-> FlightFields(p, r)]

\* _normalizeForReturn raises (AttributeError on raw.get) in the flight
\* clients when raw is not a dict.
NormalizeRaises(p, r) == Category(p) = "flight" /\ r.shape # "dict"

_normalizeForReturn(p, r) ==
    CASE Category(p) = "weather" ->
            [wrap |-> "weather", body |-> OrEmpty(r), fields |-> NoFields]
      [] Category(p) = "geo" ->
            [wrap |-> "result", body |-> OrEmpty(r), fields |-> NoFields]
      [] OTHER ->
            [wrap |-> "flight", body |-> r, fields |-> FlightFields(p, r)]

\* A faulty row, stamped with the epoch instead of the time of the write.
NewRow_epoch(p, k, r) ==
    [table |-> Category(p), key |-> k, providerSource |-> p, json |-> r,
     fields |-> IF Category(p) = "flight" THEN FlightFields(p, r) ELSE NoFields,
     lastUpdated |-> 0]

\* the row _upsert writes; lastUpdated is auto_now
NewRow(p, k, r) ==
    [table |-> Category(p), key |-> k, providerSource |-> p, json |-> r,
     fields |-> IF Category(p) = "flight" THEN FlightFields(p, r) ELSE NoFields,
     lastUpdated |-> now]

\* _upsert raises in the flight clients when raw is not a dict (raw.get), and
\* in every client when get_or_create finds more than one row
UpsertRaises(p, k, r) ==
    \/ Category(p) = "flight" /\ r.shape # "dict"
    \/ Cardinality(Rows(p, k)) > 1

\* A faulty write-back that creates the row but never updates it.
_upsert_insert_only(p, k, r) ==
    IF Rows(p, k) = {} THEN Append(store, NewRow(p, k, r)) ELSE store

\* get_or_create on (key, providerSource), then save() of the row found or made
_upsert(p, k, r) ==
    LET S == Rows(p, k)
    IN IF S = {} THEN Append(store, NewRow(p, k, r))
       ELSE [store EXCEPT ![FirstIdx(S)] = NewRow(p, k, r)]

----------------------------------------------------------------------------
(* History kept for the properties: what a call observed and did. *)

NoObs == [start |-> 0, had |-> "-", ub |-> FALSE, entry |-> "-", fetched |-> 0,
          exit |-> "-", wrote |-> FALSE]

\* the row a call finds for its key: none, or by its age against ttl and MAX_STALE
RowState(p, k, t) ==
    LET S == Rows(p, k)
    IN IF S = {} THEN "none"
       ELSE LET a == now - store[FirstIdx(S)].lastUpdated
            IN IF a < t THEN "fresh"
               ELSE IF a < MAX_STALE(Category(p)) THEN "stale" ELSE "old"

NoCnt == [gate |-> "-", exit |-> "-", https |-> 0, ok2xx |-> 0, acqs |-> 0,
          sleeps |-> 0, added |-> 0]

NoPrev == [key |-> "-", ttl |-> 0, start |-> 0, fetched |-> 0, kept |-> FALSE]

\* the summary of the call that `obs` describes, once it has returned
Summary(c) ==
    IF mode[c] = "gcf" /\ pc[c] = "done"
    THEN [key |-> key[c], ttl |-> ttl[c], start |-> obs[c].start,
          fetched |-> obs[c].fetched,
          kept |-> (obs[c].fetched = 0 \/ obs[c].wrote)]
    ELSE NoPrev

----------------------------------------------------------------------------
(* getCachedOrFetch, lines 264-275: the fresh lookup, the budget check and  *)
(* the stale lookup when over budget.  Nothing blocks between them.         *)

GcfEnter(c, k, t) ==
    /\ pc[c] = "idle"
    /\ LET cached == _get_cached(self, k, t, FALSE)
           allow_stale == ~under_budget(self)
           stale == _get_cached(self, k, t, TRUE)
           o == [NoObs EXCEPT !.start = now, !.had = RowState(self, k, t),
                              !.ub = under_budget(self)]
       IN /\ mode' = [mode EXCEPT ![c] = "gcf"]
          /\ key' = [key EXCEPT ![c] = k]
          /\ ttl' = [ttl EXCEPT ![c] = t]
          /\ IF cached # NoResp
             THEN /\ resp' = [resp EXCEPT ![c] = cached]
                  /\ pc' = [pc EXCEPT ![c] = "done"]
                  /\ obs' = [obs EXCEPT ![c] = [o EXCEPT !.entry = "fresh"]]
             ELSE IF allow_stale /\ stale # NoResp
             THEN /\ resp' = [resp EXCEPT ![c] = stale]
                  /\ pc' = [pc EXCEPT ![c] = "done"]
                  /\ obs' = [obs EXCEPT ![c] = [o EXCEPT !.entry = "stale"]]
             ELSE /\ resp' = [resp EXCEPT ![c] = NoResp]
                  /\ pc' = [pc EXCEPT ![c] = "sr_gate"]
                  /\ obs' = [obs EXCEPT ![c] = [o EXCEPT !.entry = "fetch", !.fetched = 1]]
    /\ UNCHANGED <<now, self, budgets, earlier, kwargs, maxRetries, acq, store, usage, lim, srVars, cnt, prev>>

\* a direct call of add_usage(provider, 1)
AuCall(c) ==
    /\ pc[c] = "idle"
    /\ mode' = [mode EXCEPT ![c] = "au"]
    /\ au' = [au EXCEPT ![c] = [day |-> TodayKey(now), pk |-> 0]]
    /\ pc' = [pc EXCEPT ![c] = "au_get"]
    /\ UNCHANGED <<now, self, budgets, earlier, kwargs, maxRetries, acq, store, usage, lim, key, ttl, raw, attempt, backoff,
                   lastErr, wake, resp, histVars>>

\* a call of under_budget(self.providerName), lines 688-692; its result is
\* kept in obs.ub
UbCall(c) ==
    /\ pc[c] = "idle"
    /\ mode' = [mode EXCEPT ![c] = "ub"]
    /\ obs' = [obs EXCEPT ![c] = [NoObs EXCEPT !.ub = under_budget(self)]]
    /\ pc' = [pc EXCEPT ![c] = "done"]
    /\ UNCHANGED <<now, self, budgets, earlier, kwargs, maxRetries, acq, store, usage, lim, key, ttl, srVars, resp,
                   cnt, prev>>

\* a direct call of safeRequest(..., maxRetries=n)
SrCallWith(c, n) ==
    /\ pc[c] = "idle"
    /\ mode' = [mode EXCEPT ![c] = "sr"]
    /\ maxRetries' = [maxRetries EXCEPT ![c] = n]
    /\ pc' = [pc EXCEPT ![c] = "sr_gate"]
    /\ UNCHANGED <<now, self, budgets, earlier, kwargs, acq, store, usage, lim, key, ttl, srVars, resp,
                   histVars>>

\* a direct call of safeRequest
SrCall(c) ==
    /\ pc[c] = "idle"
    /\ mode' = [mode EXCEPT ![c] = "sr"]
    /\ pc' = [pc EXCEPT ![c] = "sr_gate"]
    /\ UNCHANGED <<now, self, budgets, earlier, kwargs, maxRetries, acq, store, usage, lim, key, ttl, srVars, resp, histVars>>

----------------------------------------------------------------------------
(* safeRequest, lines 183-218. *)

\* safeRequest's locals go out of scope
SrLocalsGone(c) ==
    /\ attempt' = [attempt EXCEPT ![c] = 0]
    /\ backoff' = [backoff EXCEPT ![c] = 1]
    /\ lastErr' = [lastErr EXCEPT ![c] = None]
    /\ wake' = [wake EXCEPT ![c] = 0]

\* safeRequest returns r: to getCachedOrFetch (fetchFn's result), or to its
\* direct caller.  `how` is the exit taken: "budget", "fail" or "ok".
SrReturn(c, r, how, counted) ==
    /\ raw' = [raw EXCEPT ![c] = r]
    /\ au' = [au EXCEPT ![c] = [day |-> 0, pk |-> 0]]
    /\ IF mode[c] = "gcf"
       THEN /\ pc' = [pc EXCEPT ![c] = "post"]
            /\ obs' = [obs EXCEPT ![c].exit = how]
            /\ cnt' = [cnt EXCEPT ![c] = NoCnt]
       ELSE /\ pc' = [pc EXCEPT ![c] = "done"]
            /\ cnt' = [cnt EXCEPT ![c] = [counted EXCEPT !.exit = how]]
            /\ UNCHANGED obs

\* A faulty safeRequest that goes on to the loop whatever the budget.
SrGate_open(c) ==
    /\ pc[c] = "sr_gate"
    /\ backoff' = [backoff EXCEPT ![c] = 1]
    /\ lastErr' = [lastErr EXCEPT ![c] = None]
    /\ attempt' = [attempt EXCEPT ![c] = 0]
    /\ pc' = [pc EXCEPT ![c] = "sr_loop"]
    /\ cnt' = [cnt EXCEPT ![c] = [NoCnt EXCEPT !.gate = "under"]]
    /\ UNCHANGED <<now, self, budgets, earlier, kwargs, maxRetries, acq, store, usage, lim, callVars, raw, au, wake, resp, obs, prev>>

\* lines 185-191: the budget gate
SrGate(c) ==
    /\ pc[c] = "sr_gate"
    /\ IF ~under_budget(self)
       THEN /\ SrReturn(c, ErrResult("budget_exhausted"), "budget",
                        [NoCnt EXCEPT !.gate = "over"])
            /\ UNCHANGED <<attempt, backoff, lastErr>>
       ELSE /\ backoff' = [backoff EXCEPT ![c] = 1]
            /\ lastErr' = [lastErr EXCEPT ![c] = None]
            /\ attempt' = [attempt EXCEPT ![c] = 0]
            /\ pc' = [pc EXCEPT ![c] = "sr_loop"]
            /\ cnt' = [cnt EXCEPT ![c] = [NoCnt EXCEPT !.gate = "under"]]
            /\ UNCHANGED <<raw, au, obs>>
    /\ UNCHANGED <<now, self, budgets, earlier, kwargs, maxRetries, acq, store, usage, lim, callVars, wake, resp, prev>>

\* A faulty loop that takes a token for the first attempt only.
SrAcquire_first_only(c) ==
    /\ pc[c] = "sr_loop"
    /\ attempt[c] < maxRetries[c]
    /\ attempt' = [attempt EXCEPT ![c] = @ + 1]
    /\ lim' = IF attempt[c] = 0
              THEN [Refill(lim, self, now) EXCEPT !.tokens = Max(@ - TokUnit, 0)]
              ELSE lim
    /\ pc' = [pc EXCEPT ![c] = "sr_http"]
    /\ cnt' = [cnt EXCEPT ![c].acqs = IF attempt[c] = 0 THEN @ + 1 ELSE @]
    /\ UNCHANGED <<now, self, budgets, earlier, kwargs, maxRetries, acq, store, usage, callVars, raw, backoff,
                   lastErr, wake, au, resp, obs, prev>>

\* lines 192-194 and acquire, lines 648-657: the next iteration of the loop
\* refills the bucket and takes a token, or starts the sleep for the deficit
SrAcquire(c) ==
    /\ pc[c] = "sr_loop"
    /\ attempt[c] < maxRetries[c]
    /\ attempt' = [attempt EXCEPT ![c] = @ + 1]
    /\ LET l == Refill(lim, self, now)
       IN IF l.tokens >= TokUnit
          THEN /\ lim' = [l EXCEPT !.tokens = @ - TokUnit]
               /\ pc' = [pc EXCEPT ![c] = "sr_http"]
               /\ cnt' = [cnt EXCEPT ![c].acqs = @ + 1]
               /\ UNCHANGED wake
          ELSE /\ lim' = l
               /\ wake' = [wake EXCEPT ![c] = now + SleepTime(l, self, TokUnit)]
               /\ pc' = [pc EXCEPT ![c] = "lim_sleep"]
               /\ cnt' = [cnt EXCEPT ![c].acqs = @ + 1, ![c].sleeps = @ + 1]
    /\ UNCHANGED <<now, self, budgets, earlier, kwargs, maxRetries, acq, store, usage, callVars, raw, backoff, lastErr, au, resp,
                   obs, prev>>

\* acquire, lines 657-659: the sleep is over
LimWake(c) ==
    /\ pc[c] = "lim_sleep"
    /\ now >= wake[c]
    /\ lim' = [lim EXCEPT !.tokens = 0]
    /\ pc' = [pc EXCEPT ![c] = "sr_http"]
    /\ UNCHANGED <<now, self, budgets, earlier, kwargs, maxRetries, acq, store, usage, callVars, srVars, resp, histVars>>

----------------------------------------------------------------------------
(* SimpleRateLimiter.acquire, lines 648-659, statement by statement, as a   *)
(* caller runs it next to other callers of the same limiter: the class has  *)
(* no lock, so every read and every write of self.last and self.tokens is   *)
(* a step of its own.                                                       *)

\* the locals of a running acquire (now, elapsed, the tokens read, the cost
\* asked for), and after it the value it returned
NoAcq == [t |-> 0, elapsed |-> 0, tmp |-> 0, cost |-> 0, ret |-> FALSE]

\* acquire() has returned to its caller
AcqReturn(c) ==
    /\ pc' = [pc EXCEPT ![c] = "idle"]
    /\ acq' = [acq EXCEPT ![c] = [NoAcq EXCEPT !.ret = TRUE]]

\* lines 648-650: acquire(tokens=cost) is called; now = time.monotonic();
\* elapsed = now - self.last
AcqEnterWith(c, cost) ==
    /\ pc[c] = "idle"
    /\ cnt[c].acqs < MaxAcquires
    /\ mode' = [mode EXCEPT ![c] = "acq"]
    /\ acq' = [acq EXCEPT ![c] = [t |-> now, elapsed |-> now - lim.last, tmp |-> 0,
                                  cost |-> cost, ret |-> FALSE]]
    /\ pc' = [pc EXCEPT ![c] = "acq_last"]
    /\ cnt' = [cnt EXCEPT ![c].acqs = @ + 1]
    /\ obs' = [obs EXCEPT ![c].start = IF cnt[c].acqs = 0 THEN now ELSE @]
    /\ UNCHANGED <<now, self, budgets, earlier, kwargs, maxRetries, store, usage, lim, key, ttl, srVars, resp, prev>>

\* line 194: limiter.acquire(), with the default cost of one token
AcqEnter(c) == AcqEnterWith(c, TokUnit)

\* line 651: self.last = now
AcqSetLast(c) ==
    /\ pc[c] = "acq_last"
    /\ lim' = [lim EXCEPT !.last = acq[c].t]
    /\ pc' = [pc EXCEPT ![c] = "acq_refill"]
    /\ UNCHANGED <<now, self, budgets, earlier, kwargs, maxRetries, store, usage, callVars, srVars, resp, histVars, acq>>

\* line 652, right-hand side: self.tokens is read
AcqRefillRead(c) ==
    /\ pc[c] = "acq_refill"
    /\ acq' = [acq EXCEPT ![c].tmp = lim.tokens]
    /\ pc' = [pc EXCEPT ![c] = "acq_refill_w"]
    /\ UNCHANGED <<now, self, budgets, earlier, kwargs, maxRetries, store, usage, lim, callVars, srVars, resp, histVars>>

\* line 652: self.tokens = min(self.capacity, <tokens read> + elapsed * self.rate)
AcqRefillWrite(c) ==
    /\ pc[c] = "acq_refill_w"
    /\ lim' = [lim EXCEPT !.tokens =
                  Min(LimCapacity(self), acq[c].tmp + acq[c].elapsed * LimRate(self))]
    /\ pc' = [pc EXCEPT ![c] = "acq_test"]
    /\ UNCHANGED <<now, self, budgets, earlier, kwargs, maxRetries, store, usage, callVars, srVars, resp, histVars, acq>>

\* line 653: if self.tokens >= tokens
AcqTest(c) ==
    /\ pc[c] = "acq_test"
    /\ pc' = [pc EXCEPT ![c] = IF lim.tokens >= acq[c].cost THEN "acq_take" ELSE "acq_deficit"]
    /\ UNCHANGED <<now, self, budgets, earlier, kwargs, maxRetries, store, usage, lim, callVars, srVars, resp, histVars, acq>>

\* line 654, right-hand side: self.tokens is read
AcqTakeRead(c) ==
    /\ pc[c] = "acq_take"
    /\ acq' = [acq EXCEPT ![c].tmp = lim.tokens]
    /\ pc' = [pc EXCEPT ![c] = "acq_take_w"]
    /\ UNCHANGED <<now, self, budgets, earlier, kwargs, maxRetries, store, usage, lim, callVars, srVars, resp, histVars>>

\* lines 654-655: self.tokens = <tokens read> - tokens; return True
AcqTakeWrite(c) ==
    /\ pc[c] = "acq_take_w"
    /\ lim' = [lim EXCEPT !.tokens = acq[c].tmp - acq[c].cost]
    /\ AcqReturn(c)
    /\ UNCHANGED <<now, self, budgets, earlier, kwargs, maxRetries, store, usage, callVars, srVars, resp, histVars>>

\* lines 656-657: sleep_time from self.tokens as it is now; time.sleep begins
AcqDeficit(c) ==
    /\ pc[c] = "acq_deficit"
    /\ wake' = [wake EXCEPT ![c] = now + SleepTime(lim, self, acq[c].cost)]
    /\ cnt' = [cnt EXCEPT ![c].sleeps = @ + 1]
    /\ pc' = [pc EXCEPT ![c] = "acq_sleep"]
    /\ UNCHANGED <<now, self, budgets, earlier, kwargs, maxRetries, store, usage, lim, callVars, raw, attempt, backoff,
                   lastErr, au, resp, obs, prev, acq>>

\* A faulty limiter that refuses the caller after the sleep (returns False).
AcqWake_refuse(c) ==
    /\ pc[c] = "acq_sleep"
    /\ now >= wake[c]
    /\ lim' = [lim EXCEPT !.tokens = 0]
    /\ wake' = [wake EXCEPT ![c] = 0]
    /\ pc' = [pc EXCEPT ![c] = "idle"]
    /\ acq' = [acq EXCEPT ![c] = NoAcq]
    /\ UNCHANGED <<now, self, budgets, earlier, kwargs, maxRetries, store, usage, callVars, raw, attempt, backoff,
                   lastErr, au, resp, histVars>>

\* lines 657-659: the sleep is over; self.tokens = 0; return True
AcqWake(c) ==
    /\ pc[c] = "acq_sleep"
    /\ now >= wake[c]
    /\ lim' = [lim EXCEPT !.tokens = 0]
    /\ wake' = [wake EXCEPT ![c] = 0]
    /\ AcqReturn(c)
    /\ UNCHANGED <<now, self, budgets, earlier, kwargs, maxRetries, store, usage, callVars, raw, attempt, backoff,
                   lastErr, au, resp, histVars>>

----------------------------------------------------------------------------
(* safeRequest, lines 195-218: the HTTP call and what follows. *)

\* What session.request can do: raise requests.Timeout / ConnectionError, raise
\* another exception, or return a response.  Statuses are one per branch of the
\* code (2xx, 429, 5xx, another 4xx); a 2xx body is JSON or not.
HttpOutcomes ==
    {[k |-> "transport", code |-> 0, msg |-> m, body |-> EmptyDict] : m \in {"timeout", ""}}
    \cup {[k |-> "exc", code |-> 0, msg |-> m, body |-> EmptyDict] : m \in {"exc", ""}}
    \cup {[k |-> "status", code |-> n, msg |-> "-", body |-> EmptyDict] : n \in {429, 500, 404}}
    \cup {[k |-> "status", code |-> 200, msg |-> "json", body |-> b] : b \in Bodies}
    \cup {[k |-> "status", code |-> 200, msg |-> "text", body |-> EmptyDict]}

\* f"{self.providerName} HTTP {resp.status_code}" and the HTTPError of
\* raise_for_status: never empty
StatusMsg(n) ==
    CASE n = 429 -> "HTTP 429"
      [] n = 500 -> "HTTP 500"
      [] OTHER -> "HTTP 404"

\* A faulty test that retries server errors only.
Retryable_5xx_only(n) == 500 <= n /\ n < 600

\* line 196
Retryable(n) == n = 429 \/ (500 <= n /\ n < 600)

\* lines 206-209: resp.json(), or {"text": resp.text}
JsonOrText(out) == IF out.msg = "json" THEN out.body ELSE TextDict

\* A faulty update that doubles without a cap.
NextBackoff_uncapped(b) == b * 2

\* lines 199 and 213: backoff = min(backoff * 2, 16)
NextBackoff(b) == Min(b * 2, BackoffCap)

\* lines 198-199 and 212-213: sleep backoff (+ jitter below one tick), then double it
SrRetryLater(c, msg) ==
    /\ lastErr' = [lastErr EXCEPT ![c] = msg]
    /\ wake' = [wake EXCEPT ![c] = now + backoff[c]]
    /\ backoff' = [backoff EXCEPT ![c] = NextBackoff(backoff[c])]
    /\ pc' = [pc EXCEPT ![c] = "sr_backoff"]
    /\ cnt' = [cnt EXCEPT ![c].https = @ + 1, ![c].sleeps = @ + 1]
    /\ UNCHANGED <<raw, au, attempt>>

\* A faulty handler that retries what the code gives up on.
SrBreak_retry(c, msg) == SrRetryLater(c, msg)

\* lines 214-216: break
SrBreak(c, msg) ==
    /\ lastErr' = [lastErr EXCEPT ![c] = msg]
    /\ pc' = [pc EXCEPT ![c] = "sr_fail"]
    /\ cnt' = [cnt EXCEPT ![c].https = @ + 1]
    /\ UNCHANGED <<raw, wake, backoff, au, attempt>>

\* lines 201-203: a status below 400; the body is kept for the return and
\* add_usage is called with today's key.  The loop's locals are not read again.
SrSuccess(c, out) ==
    /\ raw' = [raw EXCEPT ![c] = JsonOrText(out)]
    /\ au' = [au EXCEPT ![c] = [day |-> TodayKey(now), pk |-> 0]]
    /\ pc' = [pc EXCEPT ![c] = "au_get"]
    /\ cnt' = [cnt EXCEPT ![c].https = @ + 1, ![c].ok2xx = @ + 1]
    /\ SrLocalsGone(c)

\* lines 195-216: the outcome of session.request
SrHttp(c, out) ==
    /\ pc[c] = "sr_http"
    /\ CASE out.k = "transport" -> SrRetryLater(c, out.msg)
         [] out.k = "exc" -> SrBreak(c, out.msg)
         [] out.k = "status" /\ Retryable(out.code) -> SrRetryLater(c, StatusMsg(out.code))
         [] out.k = "status" /\ ~Retryable(out.code) /\ out.code >= 400 ->
                SrBreak(c, StatusMsg(out.code))
         [] OTHER -> SrSuccess(c, out)
    /\ UNCHANGED <<now, self, budgets, earlier, kwargs, maxRetries, acq, store, usage, lim, callVars, resp, obs, prev>>

\* the backoff sleep is over: back to the head of the loop
SrBackoffWake(c) ==
    /\ pc[c] = "sr_backoff"
    /\ now >= wake[c]
    /\ pc' = [pc EXCEPT ![c] = "sr_loop"]
    /\ UNCHANGED <<now, self, budgets, earlier, kwargs, maxRetries, acq, store, usage, lim, callVars, srVars, resp, histVars>>

\* lines 217-218: after a break, or with every attempt used
SrFail(c) ==
    /\ \/ pc[c] = "sr_fail"
       \/ pc[c] = "sr_loop" /\ attempt[c] >= maxRetries[c]
    /\ SrReturn(c, ErrResult(IF lastErr[c] # None THEN lastErr[c] ELSE "unknown_error"),
                "fail", cnt[c])
    /\ SrLocalsGone(c)
    /\ UNCHANGED <<now, self, budgets, earlier, kwargs, maxRetries, acq, store, usage, lim, callVars, resp, prev>>

----------------------------------------------------------------------------
(* add_usage(provider, 1), lines 682-685, as safeRequest calls it (lines    *)
(* 202-205).  get_or_create is a SELECT, then an INSERT when no row was     *)
(* found; ApiUsage is unique on (provider, yyyymmdd), so an INSERT that     *)
(* loses a race fails and get_or_create reads the winner's row.  The        *)
(* increment is one UPDATE ... SET count = count + n.                       *)

\* get_or_create: the SELECT
AuGet(c) ==
    /\ pc[c] = "au_get"
    /\ LET S == UsageRows(self, au[c].day)
       IN IF S = {}
          THEN /\ pc' = [pc EXCEPT ![c] = "au_create"]
               /\ UNCHANGED au
          ELSE /\ pc' = [pc EXCEPT ![c] = "au_update"]
               /\ au' = [au EXCEPT ![c].pk = FirstIdx(S)]
    /\ UNCHANGED <<now, self, budgets, earlier, kwargs, maxRetries, acq, store, usage, lim, callVars, raw, attempt, backoff,
                   lastErr, wake, resp, histVars>>

\* A faulty INSERT into a table without the unique constraint.
InsertUsage_no_unique(p, d) ==
    Append(usage, [provider |-> p, yyyymmdd |-> d, count |-> 0])

\* the INSERT under the unique constraint of ApiUsage.Meta
InsertUsage(p, d) ==
    IF UsageRows(p, d) = {}
    THEN Append(usage, [provider |-> p, yyyymmdd |-> d, count |-> 0])
    ELSE usage

\* get_or_create: the INSERT, or the second SELECT after an IntegrityError
AuCreate(c) ==
    /\ pc[c] = "au_create"
    /\ usage' = InsertUsage(self, au[c].day)
    /\ au' = [au EXCEPT ![c].pk = FirstIdx({i \in 1..Len(usage') :
                                     /\ usage'[i].provider = self
                                     /\ usage'[i].yyyymmdd = au[c].day})]
    /\ pc' = [pc EXCEPT ![c] = "au_update"]
    /\ UNCHANGED <<now, self, budgets, earlier, kwargs, maxRetries, acq, store, lim, callVars, raw, attempt, backoff,
                   lastErr, wake, resp, histVars>>

\* A faulty UPDATE that counts every call twice.
IncrementUsage_twice(pk, n) == [usage EXCEPT ![pk].count = @ + 2 * n]

\* .filter(pk=obj.pk).update(count=F("count") + n)
IncrementUsage(pk, n) == [usage EXCEPT ![pk].count = @ + n]

AuUpdate(c) ==
    /\ pc[c] = "au_update"
    /\ usage' = IncrementUsage(au[c].pk, 1)
    /\ SrReturn(c, raw[c], "ok", [cnt[c] EXCEPT !.added = @ + 1])
    /\ UNCHANGED <<now, self, budgets, earlier, kwargs, maxRetries, acq, store, lim, callVars, attempt, backoff, lastErr, wake,
                   resp, prev>>

\* lines 204-205: the ledger write raised; logged, the call goes on
AuFail(c) ==
    /\ pc[c] \in {"au_get", "au_create", "au_update"}
    /\ SrReturn(c, raw[c], "ok", cnt[c])
    /\ UNCHANGED <<now, self, budgets, earlier, kwargs, maxRetries, acq, store, usage, lim, callVars, attempt, backoff, lastErr,
                   wake, resp, prev>>

----------------------------------------------------------------------------
(* getCachedOrFetch, lines 278-293: after fetchFn returned. *)

\* lines 279-284 and 293: an error result; the stale row if there is one,
\* else the error payload, normalized
GcfPostError(c) ==
    /\ pc[c] = "post"
    /\ IsError(raw[c])
    /\ LET stale == _get_cached(self, key[c], ttl[c], TRUE)
       IN resp' = [resp EXCEPT ![c] =
                     IF stale # NoResp THEN stale
                     ELSE ProviderResponse(_normalizeForReturn(self, raw[c]), "miss")]
    /\ pc' = [pc EXCEPT ![c] = "done"]
    /\ UNCHANGED <<now, self, budgets, earlier, kwargs, maxRetries, acq, store, usage, lim, callVars, srVars, histVars>>

\* line 293, which raises in the flight clients on a raw value that is no dict
GcfReturnMiss(c) ==
    resp' = [resp EXCEPT ![c] =
               IF NormalizeRaises(self, raw[c]) THEN Raised
               ELSE ProviderResponse(_normalizeForReturn(self, raw[c]), "miss")]

\* lines 287-289 and 293: the write-back succeeds
GcfPostStore(c) ==
    /\ pc[c] = "post"
    /\ ~IsError(raw[c])
    /\ ~UpsertRaises(self, key[c], raw[c])
    /\ store' = _upsert(self, key[c], raw[c])
    /\ GcfReturnMiss(c)
    /\ pc' = [pc EXCEPT ![c] = "done"]
    /\ obs' = [obs EXCEPT ![c].wrote = TRUE]
    /\ UNCHANGED <<now, self, budgets, earlier, kwargs, maxRetries, acq, usage, lim, callVars, srVars, cnt, prev>>

\* lines 287-293: _upsert raises (a storage failure, or raw.get on a non-dict);
\* the transaction rolls back, the exception is logged
GcfPostNoStore(c) ==
    /\ pc[c] = "post"
    /\ ~IsError(raw[c])
    /\ GcfReturnMiss(c)
    /\ pc' = [pc EXCEPT ![c] = "done"]
    /\ UNCHANGED <<now, self, budgets, earlier, kwargs, maxRetries, acq, store, usage, lim, callVars, srVars, histVars>>

----------------------------------------------------------------------------
(* The write-back of getCachedOrFetch, lines 286-293, as callers that have  *)
(* missed on the same key run it side by side.  _upsert is one transaction: *)
(* get_or_create's SELECT, then at commit either the INSERT of a new row or *)
(* the UPDATE of the row found.  Flight, AirportWeather and MapsGeo declare *)
(* no unique constraint, so nothing makes an INSERT fail.                   *)

\* lines 278-286: fetchFn has returned r, which is no error
UpCall(c, r) ==
    /\ pc[c] = "idle"
    /\ ~IsError(r)
    /\ mode' = [mode EXCEPT ![c] = "up"]
    /\ raw' = [raw EXCEPT ![c] = r]
    /\ pc' = [pc EXCEPT ![c] = "up_get"]
    /\ UNCHANGED <<now, self, budgets, earlier, kwargs, maxRetries, acq, store, usage, lim, key, ttl, attempt, backoff,
                   lastErr, wake, au, resp, histVars>>

\* get_or_create: the SELECT (au.pk holds the row bound to obj); or _upsert
\* raises, is logged, and line 293 returns
UpGet(c) ==
    /\ pc[c] = "up_get"
    /\ LET S == Rows(self, key[c])
       IN IF UpsertRaises(self, key[c], raw[c])
          THEN /\ GcfReturnMiss(c)
               /\ pc' = [pc EXCEPT ![c] = "done"]
               /\ UNCHANGED au
          ELSE /\ au' = [au EXCEPT ![c].pk = IF S = {} THEN 0 ELSE FirstIdx(S)]
               /\ pc' = [pc EXCEPT ![c] = "up_write"]
               /\ UNCHANGED resp
    /\ UNCHANGED <<now, self, budgets, earlier, kwargs, maxRetries, acq, store, usage, lim, callVars, raw, attempt, backoff,
                   lastErr, wake, histVars>>

\* the INSERT of get_or_create or obj.save() of the row found, committed; then
\* line 293
UpWrite(c) ==
    /\ pc[c] = "up_write"
    /\ store' = IF au[c].pk = 0
                THEN Append(store, NewRow(self, key[c], raw[c]))
                ELSE [store EXCEPT ![au[c].pk] = NewRow(self, key[c], raw[c])]
    /\ au' = [au EXCEPT ![c].pk = 0]
    /\ GcfReturnMiss(c)
    /\ pc' = [pc EXCEPT ![c] = "done"]
    /\ obs' = [obs EXCEPT ![c].wrote = TRUE]
    /\ UNCHANGED <<now, self, budgets, earlier, kwargs, maxRetries, acq, usage, lim, callVars, raw, attempt, backoff,
                   lastErr, wake, cnt, prev>>

----------------------------------------------------------------------------
(* The usage ledger cannot be read: get_usage's query, line 678, raises.    *)
(* under_budget (lines 688-692) reads the ledger only for a provider with a *)
(* truthy budget, and neither it nor its two callers (lines 185 and 271)    *)
(* has a try around the read.                                               *)

\* under_budget gets as far as get_usage
ReadsLedger(p) == DAILY_BUDGETS(p) # NoBudget /\ DAILY_BUDGETS(p) # 0

\* lines 266-271: no fresh row, then under_budget raises out of
\* getCachedOrFetch
GcfEnterLedgerDown(c, k, t) ==
    /\ pc[c] = "idle"
    /\ _get_cached(self, k, t, FALSE) = NoResp
    /\ ReadsLedger(self)
    /\ mode' = [mode EXCEPT ![c] = "gcf"]
    /\ key' = [key EXCEPT ![c] = k]
    /\ ttl' = [ttl EXCEPT ![c] = t]
    /\ resp' = [resp EXCEPT ![c] = Raised]
    /\ pc' = [pc EXCEPT ![c] = "done"]
    /\ obs' = [obs EXCEPT ![c] = [NoObs EXCEPT !.start = now,
                                               !.had = RowState(self, k, t),
                                               !.entry = "ledger_down"]]
    /\ UNCHANGED <<now, self, budgets, earlier, kwargs, maxRetries, acq, store, usage, lim, srVars, cnt, prev>>

\* line 185: under_budget raises out of safeRequest, and from there out of
\* fetchFn and line 278 of getCachedOrFetch
SrGateLedgerDown(c) ==
    /\ pc[c] = "sr_gate"
    /\ ReadsLedger(self)
    /\ resp' = [resp EXCEPT ![c] = Raised]
    /\ pc' = [pc EXCEPT ![c] = "done"]
    /\ cnt' = [cnt EXCEPT ![c] = [NoCnt EXCEPT !.gate = "ledger_down"]]
    /\ UNCHANGED <<now, self, budgets, earlier, kwargs, maxRetries, acq, store, usage, lim, callVars, srVars, obs, prev>>

----------------------------------------------------------------------------
(* Cache keys of the thin wrappers, lines 698-700 and 901-915.  A string is *)
(* a sequence of characters; a SHA-256 digest is kept as the text it was    *)
(* taken of behind a mark that no character equals (digests of different    *)
(* texts differ; none of the short queries below is 64 hex digits long).    *)

Chars == {"a", "A", " "}

\* the strings a caller passes to fetchOpenWeatherMap
Queries == UNION {[1..n -> Chars] : n \in 1..MaxQueryLen}

\* str.upper(), per character
UpperChar(ch) == IF ch = "a" THEN "A" ELSE ch

Upper(s) == [i \in 1..Len(s) |-> UpperChar(s[i])]

RECURSIVE LStrip(_)
LStrip(s) == IF s # << >> /\ s[1] = " " THEN LStrip(Tail(s)) ELSE s

RECURSIVE RStrip(_)
RStrip(s) ==
    IF s # << >> /\ s[Len(s)] = " " THEN RStrip(SubSeq(s, 1, Len(s) - 1)) ELSE s

\* str.strip()
Strip(s) == RStrip(LStrip(s))

DigestMark == "sha256"

\* sha256Stable of a string, lines 698-700: the digest of the string as it is
sha256Stable(s) == <<DigestMark>> \o s

\* getOpenWeatherMapFromDb's is_hash, line 906
IsHash(s) == s # << >> /\ s[1] = DigestMark

\* OpenWeatherMapClient.fetch, line 716: key = icaoOrIata.strip().upper()
OwmKey(q) == Upper(Strip(q))

\* the result of a DB getter that found nothing: {}
NoData == [wrap |-> "-", body |-> EmptyDict, fields |-> NoFields]

\* getOpenWeatherMapFromDb, lines 904-915
getOpenWeatherMapFromDb(arg) ==
    LET cand == Strip(arg)
        keys == IF IsHash(cand) THEN {cand}
                ELSE {Upper(cand), sha256Stable(Upper(cand))}
        S == {i \in 1..Len(store) :
                /\ store[i].table = "weather"
                /\ store[i].key \in keys
                /\ store[i].providerSource = "openweathermap"}
    IN IF S = {} THEN NoData
       ELSE [wrap |-> "weather", body |-> store[FirstIdx(S)].json, fields |-> NoFields]

\* fetchOpenWeatherMap(q), lines 901-902 and 715-723: getCachedOrFetch under
\* the key derived from q
OwmFetch(c, q) == \E t \in 1..MaxTtl : GcfEnter(c, OwmKey(q), t)

----------------------------------------------------------------------------
(* fetchAviationStackFlight, lines 929-943, and the key of                  *)
(* AviationStackClient.fetch, lines 771-776.  A call is the sequence of its *)
(* keyword arguments in the order the caller wrote them; a dict is the      *)
(* sequence of its items in insertion order.                                *)

ArgNames == <<"flightNumber", "airline", "depIata", "arrIata", "onlyAirborne", "onlyDelayed">>

IsFlag(n) == n \in {"onlyAirborne", "onlyDelayed"}

\* what a caller passes: a string, possibly empty, or a bool (written here
\* as "True" / "False")
ArgValues(n) == IF IsFlag(n) THEN {"False", "True"} ELSE {"", "X"}

KwArgs == {<<n, v>> : n \in {ArgNames[i] : i \in 1..Len(ArgNames)}, v \in {"", "X", "False", "True"}}

\* the calls: up to MaxArgs keyword arguments, no name twice
Calls ==
    UNION {{a \in [1..n -> KwArgs] :
              /\ \A i \in 1..n : a[i][2] \in ArgValues(a[i][1])
              /\ \A i, j \in 1..n : i # j => a[i][1] # a[j][1]}
           : n \in 0..MaxArgs}

\* the value Python binds to parameter n: the argument, or the default None
Bound(a, n) ==
    IF \E i \in 1..Len(a) : a[i][1] = n
    THEN a[CHOOSE i \in 1..Len(a) : a[i][1] = n][2]
    ELSE None

\* `if flightNumber:` and the like
Truthy(v) == v \notin {None, "", "False"}

\* the provider's name for a parameter, lines 931-942
ProviderParam(n) ==
    CASE n = "flightNumber" -> "flight_iata"
      [] n = "airline" -> "airline_name"
      [] n = "depIata" -> "dep_iata"
      [] n = "arrIata" -> "arr_iata"
      [] n = "onlyAirborne" -> "status"
      [] OTHER -> "delayed"

\* the value sent, lines 931-942
ProviderValue(n, v) ==
    CASE n = "onlyAirborne" -> "active"
      [] n = "onlyDelayed" -> "true"
      [] OTHER -> v

RECURSIVE BuildParams(_, _)
BuildParams(a, i) ==
    IF i > Len(ArgNames) THEN << >>
    ELSE LET n == ArgNames[i]
             v == Bound(a, n)
         IN (IF Truthy(v) THEN << <<ProviderParam(n), ProviderValue(n, v)>> >> ELSE << >>)
            \o BuildParams(a, i + 1)

\* A faulty wrapper that forgets the last filter.
AstackParams_no_delayed(a) ==
    SelectSeq(BuildParams(a, 1), LAMBDA it : it[1] # "delayed")

\* the params dict of fetchAviationStackFlight, lines 930-942
AstackParams(a) == BuildParams(a, 1)

\* the provider's parameter names in the order sort_keys puts them
SortedKeys == <<"airline_name", "arr_iata", "delayed", "dep_iata", "flight_iata", "status">>

RECURSIVE DumpFrom(_, _)
DumpFrom(d, i) ==
    IF i > Len(SortedKeys) THEN << >>
    ELSE SelectSeq(d, LAMBDA it : it[1] = SortedKeys[i]) \o DumpFrom(d, i + 1)

\* json.dumps(obj, sort_keys=True, separators=(",", ":")), line 699: the
\* items by key, whatever their insertion order
JsonDumps(d) == DumpFrom(d, 1)

\* sha256Stable of a dict, lines 698-700
sha256StableDict(d) == <<DigestMark>> \o JsonDumps(d)

\* AviationStackClient.fetch(**kwargs), line 772: qhash
AstackKey(a) == sha256StableDict(AstackParams(a))

\* fetchAviationStackFlight(...) up to the key its fetch uses
AstackFetch(c, a) ==
    /\ pc[c] = "idle"
    /\ self = "aviationstack"
    /\ kwargs' = [kwargs EXCEPT ![c] = a]
    /\ key' = [key EXCEPT ![c] = AstackKey(a)]
    /\ mode' = [mode EXCEPT ![c] = "astack"]
    /\ pc' = [pc EXCEPT ![c] = "done"]
    /\ UNCHANGED <<now, self, budgets, earlier, maxRetries, acq, store, usage, lim, ttl, srVars, resp, histVars>>

----------------------------------------------------------------------------
(* The environment. *)

\* Where a caller lets time pass: between calls and in time.sleep until the
\* sleep is due.  The statements in between, and the provider's answer, take
\* less than a tick.
Waiting(c) ==
    \/ pc[c] = "idle"
    \/ pc[c] \in {"lim_sleep", "sr_backoff", "acq_sleep"} /\ now < wake[c]

\* A second passes, up to the horizon of the specification.  The summary of an idle caller's previous call is dropped
\* once no call can start within its ttl any more.
Tick(horizon) ==
    /\ now < horizon
    /\ \A c \in Callers : Waiting(c)
    /\ now' = now + 1
    /\ prev' = [c \in Callers |->
                  IF pc[c] = "idle" /\ now' - prev[c].start >= prev[c].ttl
                  THEN NoPrev ELSE prev[c]]
    /\ UNCHANGED <<self, budgets, earlier, kwargs, maxRetries, acq, store, usage, lim, pc, callVars, srVars, resp, obs, cnt>>

\* The caller has its result; the call's locals are gone.
Forget(c) ==
    /\ pc[c] = "done"
    /\ pc' = [pc EXCEPT ![c] = "idle"]
    /\ prev' = [prev EXCEPT ![c] = Summary(c)]
    /\ mode' = [mode EXCEPT ![c] = "-"]
    /\ key' = [key EXCEPT ![c] = "k1"]
    /\ ttl' = [ttl EXCEPT ![c] = 1]
    /\ raw' = [raw EXCEPT ![c] = EmptyDict]
    /\ resp' = [resp EXCEPT ![c] = NoResp]
    /\ obs' = [obs EXCEPT ![c] = NoObs]
    /\ cnt' = [cnt EXCEPT ![c] = NoCnt]
    /\ maxRetries' = [maxRetries EXCEPT ![c] = MaxRetries]
    /\ UNCHANGED <<now, self, budgets, earlier, kwargs, acq, store, usage, lim, attempt, backoff, lastErr, wake, au>>

----------------------------------------------------------------------------


(* Specifications. *)

\* What earlier processes left in this provider's table: a row of the
\* other provider of the category under the same key, and a row of this
\* provider under another key.
ForeignRow(p, k, q) ==
    [table |-> Category(p), key |-> k, providerSource |-> q, json |-> Obj(2),
     fields |-> IF Category(p) = "flight" THEN FlightFields(q, Obj(2)) ELSE NoFields,
     lastUpdated |-> 0]

ForeignRows(p) ==
    (IF Sibling(p) = "none" THEN << >> ELSE << ForeignRow(p, "k1", Sibling(p)) >>)
    \o << ForeignRow(p, OtherKey, p) >>

\* no call has returned yet
NoEarlier == [key |-> "-", ttl |-> 0, cache |-> "-", ok |-> FALSE, data |-> NoResp.data]

InitCallers ==
    /\ pc = [c \in Callers |-> "idle"]
    /\ mode = [c \in Callers |-> "-"]
    /\ key = [c \in Callers |-> "k1"]
    /\ ttl = [c \in Callers |-> 1]
    /\ raw = [c \in Callers |-> EmptyDict]
    /\ attempt = [c \in Callers |-> 0]
    /\ backoff = [c \in Callers |-> 1]
    /\ lastErr = [c \in Callers |-> None]
    /\ wake = [c \in Callers |-> 0]
    /\ au = [c \in Callers |-> [day |-> 0, pk |-> 0]]
    /\ resp = [c \in Callers |-> NoResp]
    /\ obs = [c \in Callers |-> NoObs]
    /\ cnt = [c \in Callers |-> NoCnt]
    /\ prev = [c \in Callers |-> NoPrev]
    /\ acq = [c \in Callers |-> NoAcq]
    /\ kwargs = [c \in Callers |-> << >>]
    /\ maxRetries = [c \in Callers |-> MaxRetries]
    /\ earlier = NoEarlier

\* The process has just started: full buckets, an empty ledger, no row of
\* this provider under the callers' key.
Init ==
    /\ now = 0
    /\ self \in Providers
    /\ budgets = DefaultBudgets
    /\ store = ForeignRows(self)
    /\ usage = << >>
    /\ lim = [tokens |-> LimCapacity(self), last |-> 0]
    /\ InitCallers

\* One caller at a time: sequential getCachedOrFetch calls.
Next ==
    \/ \E k \in Keys, t \in 1..MaxTtl : GcfEnter(1, k, t)
    \/ SrGate(1)
    \/ SrAcquire(1)
    \/ LimWake(1)
    \/ \E out \in HttpOutcomes : SrHttp(1, out)
    \/ SrBackoffWake(1)
    \/ SrFail(1)
    \/ AuGet(1)
    \/ AuCreate(1)
    \/ AuUpdate(1)
    \/ AuFail(1)
    \/ GcfPostError(1)
    \/ GcfPostStore(1)
    \/ GcfPostNoStore(1)
    \/ Forget(1)
    \/ Tick(MaxTime)

Spec == Init /\ [][Next]_vars

\* One caller at a time: sequential safeRequest calls, over a horizon long
\* enough for every retry.
NextSr ==
    \/ SrCall(1)
    \/ SrGate(1)
    \/ SrAcquire(1)
    \/ LimWake(1)
    \/ \E out \in HttpOutcomes : SrHttp(1, out)
    \/ SrBackoffWake(1)
    \/ SrFail(1)
    \/ AuGet(1)
    \/ AuCreate(1)
    \/ AuUpdate(1)
    \/ AuFail(1)
    \/ Forget(1)
    \/ Tick(SrHorizon)

SpecSr == Init /\ [][NextSr]_vars

\* The ledger as earlier calls of the day left it: no row, or today's row
\* with a count up to the budget.
InitConc ==
    /\ now = 0
    /\ self \in Providers
    /\ budgets = DefaultBudgets
    /\ store = ForeignRows(self)
    /\ \/ usage = << >>
       \/ \E n \in 0..MaxBudget :
             usage = << [provider |-> self, yyyymmdd |-> TodayKey(0), count |-> n] >>
    /\ lim = [tokens |-> LimCapacity(self), last |-> 0]
    /\ InitCallers

\* One outcome per path through safeRequest's loop: a 2xx, a status that is
\* retried, a status that is not.
ConcOutcomes ==
    {out \in HttpOutcomes :
        /\ out.k = "status"
        /\ \/ out.code \in {500, 404}
           \/ out.code = 200 /\ out.msg = "json" /\ out.body = Obj(1)}

\* Concurrent safeRequest calls on one client, one per caller: the callers'
\* steps interleave.
NextConc ==
    \/ \E c \in Callers :
          \/ SrCall(c)
          \/ SrGate(c)
          \/ SrAcquire(c)
          \/ LimWake(c)
          \/ \E out \in ConcOutcomes : SrHttp(c, out)
          \/ SrBackoffWake(c)
          \/ SrFail(c)
          \/ AuGet(c)
          \/ AuCreate(c)
          \/ AuUpdate(c)
    \/ Tick(ConcHorizon)

SpecConc == InitConc /\ [][NextConc]_vars

\* Concurrent add_usage calls against an empty ledger, one per caller, on a
\* storage layer that does not fail.
NextLedger ==
    \E c \in Callers :
        \/ AuCall(c)
        \/ AuGet(c)
        \/ AuCreate(c)
        \/ AuUpdate(c)

SpecLedger == Init /\ [][NextLedger]_vars

\* The statements of acquire() by caller c.
AcquireStep(c) ==
    \/ AcqEnter(c)
    \/ AcqSetLast(c)
    \/ AcqRefillRead(c)
    \/ AcqRefillWrite(c)
    \/ AcqTest(c)
    \/ AcqTakeRead(c)
    \/ AcqTakeWrite(c)
    \/ AcqDeficit(c)
    \/ AcqWake(c)

\* One caller calling acquire() again and again.
NextLimSeq == AcquireStep(1) \/ Tick(LimHorizon)

SpecLimSeq == Init /\ [][NextLimSeq]_vars

\* Several callers calling acquire() on the same limiter.
NextLim == (\E c \in Callers : AcquireStep(c)) \/ Tick(ConcHorizon)

SpecLim == Init /\ [][NextLim]_vars

\* The costs a caller can ask for, in tokens: nothing, the default of one
\* token, and more than a bucket of capacity one holds.
Costs == {k * TokUnit : k \in 0..MaxCost}

\* The statements of a running acquire() of caller c.
AcquireRun(c) ==
    \/ AcqSetLast(c)
    \/ AcqRefillRead(c)
    \/ AcqRefillWrite(c)
    \/ AcqTest(c)
    \/ AcqTakeRead(c)
    \/ AcqTakeWrite(c)
    \/ AcqDeficit(c)
    \/ AcqWake(c)

\* line 657, time.sleep(sleep_time): while every caller waits, time passes
\* until the sleeper that is due first is due
SleepOver ==
    \E c \in Callers :
        /\ pc[c] = "acq_sleep"
        /\ now < wake[c]
        /\ \A d \in Callers : Waiting(d) /\ (pc[d] = "acq_sleep" => wake[c] <= wake[d])
        /\ now' = wake[c]
        /\ prev' = [d \in Callers |->
                      IF pc[d] = "idle" /\ now' - prev[d].start >= prev[d].ttl
                      THEN NoPrev ELSE prev[d]]
        /\ UNCHANGED <<self, budgets, earlier, kwargs, maxRetries, acq, store, usage, lim, pc, callVars, srVars, resp, obs, cnt>>

\* One caller calling acquire(cost) again and again, with any cost.
NextLimLive ==
    \/ \E cost \in Costs : AcqEnterWith(1, cost)
    \/ AcquireRun(1)
    \/ Tick(LimHorizon)
    \/ SleepOver

\* A thread that is in acquire() goes on to its next statement, and the
\* clock goes on while a thread sleeps.
SpecLimLive ==
    /\ Init
    /\ [][NextLimLive]_vars
    /\ WF_vars(AcquireRun(1))
    /\ WF_vars(SleepOver)

\* Concurrent write-backs on one client and one key, one per caller.
NextStore ==
    \/ \E c \in Callers :
          \/ \E r \in Bodies \cup {TextDict} : UpCall(c, r)
          \/ UpGet(c)
          \/ UpWrite(c)
    \/ Tick(ConcHorizon)

SpecStore == Init /\ [][NextStore]_vars

\* Any budget the environment can configure for a provider with an entry in
\* DAILY_BUDGETS (zero included), none for the one without; any ledger.
InitBudget ==
    /\ now = 0
    /\ self \in Providers
    /\ \E b \in 0..MaxBudget :
          budgets = [DefaultBudgets EXCEPT
                        ![self] = IF @ = NoBudget THEN NoBudget ELSE b]
    /\ store = ForeignRows(self)
    /\ \/ usage = << >>
       \/ \E n \in 0..(MaxBudget + 1) :
             usage = << [provider |-> self, yyyymmdd |-> TodayKey(0), count |-> n] >>
    /\ lim = [tokens |-> LimCapacity(self), last |-> 0]
    /\ InitCallers

\* Calls of under_budget.
NextBudget ==
    \E c \in Callers :
        \/ UbCall(c)
        \/ Forget(c)

SpecBudget == InitBudget /\ [][NextBudget]_vars

\* One caller at a time, getCachedOrFetch and safeRequest calls, with a
\* ledger whose reads can fail.
NextOutage ==
    \/ \E k \in Keys, t \in 1..MaxTtl : GcfEnter(1, k, t)
    \/ \E k \in Keys, t \in 1..MaxTtl : GcfEnterLedgerDown(1, k, t)
    \/ SrCall(1)
    \/ SrGate(1)
    \/ SrGateLedgerDown(1)
    \/ SrAcquire(1)
    \/ LimWake(1)
    \/ \E out \in ConcOutcomes : SrHttp(1, out)
    \/ SrBackoffWake(1)
    \/ SrFail(1)
    \/ AuGet(1)
    \/ AuCreate(1)
    \/ AuUpdate(1)
    \/ GcfPostError(1)
    \/ GcfPostStore(1)
    \/ GcfPostNoStore(1)
    \/ Forget(1)
    \/ Tick(ConcHorizon)

SpecOutage == Init /\ [][NextOutage]_vars

\* The OpenWeatherMap client on an empty AirportWeather table.
InitKeys ==
    /\ now = 0
    /\ self = "openweathermap"
    /\ budgets = DefaultBudgets
    /\ store = << >>
    /\ usage = << >>
    /\ lim = [tokens |-> LimCapacity(self), last |-> 0]
    /\ InitCallers

\* One caller at a time: fetchOpenWeatherMap calls with any query.
NextKeys ==
    \/ \E q \in Queries : OwmFetch(1, q)
    \/ SrGate(1)
    \/ SrAcquire(1)
    \/ LimWake(1)
    \/ \E out \in ConcOutcomes : SrHttp(1, out)
    \/ SrBackoffWake(1)
    \/ SrFail(1)
    \/ AuGet(1)
    \/ AuCreate(1)
    \/ AuUpdate(1)
    \/ GcfPostError(1)
    \/ GcfPostStore(1)
    \/ GcfPostNoStore(1)
    \/ Forget(1)
    \/ Tick(ConcHorizon)

SpecKeys == InitKeys /\ [][NextKeys]_vars

\* The AviationStack client.
InitFlightKeys ==
    /\ now = 0
    /\ self = "aviationstack"
    /\ budgets = DefaultBudgets
    /\ store = ForeignRows(self)
    /\ usage = << >>
    /\ lim = [tokens |-> LimCapacity(self), last |-> 0]
    /\ InitCallers

\* A fetchAviationStackFlight call with any keyword arguments in any order.
NextFlightKeys == \E a \in Calls : AstackFetch(1, a)

SpecFlightKeys == InitFlightKeys /\ [][NextFlightKeys]_vars

\* The outcomes that are retried after a backoff sleep (a timeout, a 429, a
\* 5xx), and one that ends the call at once (a 404).
BackoffOutcomes ==
    {out \in HttpOutcomes :
        \/ out.k = "transport" /\ out.msg = "timeout"
        \/ out.k = "status" /\ out.code \in {429, 500, 404}}

\* One caller at a time: safeRequest calls with any maxRetries, over a
\* horizon on which the backoff reaches its cap.
NextBackoffs ==
    \/ \E n \in 1..MaxTries : SrCallWith(1, n)
    \/ SrGate(1)
    \/ SrAcquire(1)
    \/ LimWake(1)
    \/ \E out \in BackoffOutcomes : SrHttp(1, out)
    \/ SrBackoffWake(1)
    \/ SrFail(1)
    \/ Forget(1)
    \/ Tick(BackoffHorizon)

SpecBackoff == Init /\ [][NextBackoffs]_vars

----------------------------------------------------------------------------
(* A miss followed by a hit on the same key, through a client's fetch(),   *)
(* which passes one ttl (DEFAULT_TTLS[category]) on every call.  The       *)
(* bodies include the empty array the geocoder and the METAR endpoint      *)
(* answer when they find nothing.                                          *)

\* []
EmptyList == [shape |-> "list", err |-> NoKey, v |-> 0]

\* lines 195-216: the outcome of session.request
NormOutcomes ==
    {out \in HttpOutcomes : out.k = "status" /\ out.code \in {200, 500, 404}}
    \cup {[k |-> "status", code |-> 200, msg |-> "json", body |-> EmptyList]}

\* The caller has its result; the call's locals are gone.  What the call
\* returned is remembered for comparison with the next call's result.
ForgetNoting(c) ==
    /\ pc[c] = "done"
    /\ pc' = [pc EXCEPT ![c] = "idle"]
    /\ earlier' = [key |-> key[c], ttl |-> ttl[c], cache |-> resp[c].cache,
                   ok |-> (resp[c].kind = "resp" /\ obs[c].exit = "ok"
                             /\ ~IsError(raw[c])),
                   data |-> resp[c].data]
    /\ prev' = [prev EXCEPT ![c] = Summary(c)]
    /\ mode' = [mode EXCEPT ![c] = "-"]
    /\ key' = [key EXCEPT ![c] = "k1"]
    /\ ttl' = [ttl EXCEPT ![c] = 1]
    /\ raw' = [raw EXCEPT ![c] = EmptyDict]
    /\ resp' = [resp EXCEPT ![c] = NoResp]
    /\ obs' = [obs EXCEPT ![c] = NoObs]
    /\ cnt' = [cnt EXCEPT ![c] = NoCnt]
    /\ maxRetries' = [maxRetries EXCEPT ![c] = MaxRetries]
    /\ UNCHANGED <<now, self, budgets, kwargs, acq, store, usage, lim, attempt, backoff, lastErr, wake, au>>

NextNorm ==
    \/ \E k \in Keys : GcfEnter(1, k, MaxTtl)
    \/ SrGate(1)
    \/ SrAcquire(1)
    \/ LimWake(1)
    \/ \E out \in NormOutcomes : SrHttp(1, out)
    \/ SrBackoffWake(1)
    \/ SrFail(1)
    \/ AuGet(1)
    \/ AuCreate(1)
    \/ AuUpdate(1)
    \/ GcfPostError(1)
    \/ GcfPostStore(1)
    \/ GcfPostNoStore(1)
    \/ ForgetNoting(1)
    \/ Tick(MaxTime)

SpecNorm == Init /\ [][NextNorm]_vars

----------------------------------------------------------------------------
(* Properties of the orchestrator, checked under Spec. *)

\* the first row .filter(key, providerSource).first() returns
FirstRow(p, k) == store[FirstIdx(Rows(p, k))]

\* caller c is in, or has just finished, a getCachedOrFetch call that began
\* less than ttl after its previous call began, with the same key and ttl
SecondInWindow(c) ==
    /\ mode[c] = "gcf"
    /\ prev[c].key = key[c]
    /\ prev[c].ttl = ttl[c]
    /\ obs[c].start - prev[c].start < ttl[c]

C2_FreshHit ==
    [][\A c \in Callers :
          (/\ pc[c] = "idle"
           /\ pc'[c] # "idle"
           /\ mode'[c] = "gcf"
           /\ RowState(self, key'[c], ttl'[c]) = "fresh")
          => (/\ pc'[c] = "done"
              /\ resp'[c] = ProviderResponse(HitData(self, FirstRow(self, key'[c])), "hit")
              /\ obs'[c].fetched = 0
              /\ cnt'[c] = NoCnt
              /\ store' = store
              /\ usage' = usage
              /\ lim' = lim)]_vars

\* a call that found a row written at an earlier tick still fresh
C2_Witness ==
    \E c \in Callers :
        /\ mode[c] = "gcf"
        /\ pc[c] = "done"
        /\ obs[c].had = "fresh"
        /\ resp[c].cache = "hit"
        /\ Rows(self, key[c]) # {}
        /\ Age(FirstRow(self, key[c])) > 0

\* the provider has a budget and today's usage has reached it
OverBudget == DAILY_BUDGETS(self) > 0 /\ get_usage(self) >= DAILY_BUDGETS(self)

\* C3: given a stored row of age a with ttl <= a < MAX_STALE[category] and
\* the provider over budget, getCachedOrFetch returns that row with status
\* stale and makes no network call: fetchFn is not invoked.
C3_StaleOverBudget ==
    [][\A c \in Callers :
          (/\ pc[c] = "idle"
           /\ pc'[c] # "idle"
           /\ mode'[c] = "gcf"
           /\ RowState(self, key'[c], ttl'[c]) = "stale"
           /\ OverBudget)
          => (/\ pc'[c] = "done"
              /\ resp'[c] = ProviderResponse(HitData(self, FirstRow(self, key'[c])), "stale")
              /\ obs'[c].fetched = 0
              /\ cnt'[c] = NoCnt
              /\ usage' = usage
              /\ lim' = lim)]_vars

\* a call over budget that was served the aged row
C3_Witness ==
    \E c \in Callers :
        /\ mode[c] = "gcf"
        /\ pc[c] = "done"
        /\ obs[c].had = "stale"
        /\ ~obs[c].ub
        /\ OverBudget
        /\ resp[c].cache = "stale"
        /\ obs[c].fetched = 0

\* caller c has a result from getCachedOrFetch and still holds the call's locals
Returned(c) == mode[c] = "gcf" /\ pc[c] = "done"

\* fetchFn returned one of safeRequest's error results: the budget gate's
\* (line 187) or the one after the loop (line 218)
FetchFailed(c) == obs[c].exit \in {"budget", "fail"}

\* C4 as stated: given a stored row of age a with ttl <= a < MAX_STALE and the
\* provider under budget, if fetchFn returns an error result,
\* getCachedOrFetch returns the stored row with status stale and does not
\* modify the store.
C4_StaleOnFailure ==
    \A c \in Callers :
        (Returned(c) /\ obs[c].had = "stale" /\ obs[c].ub /\ FetchFailed(c))
        => (/\ resp[c].kind = "resp"
            /\ resp[c].cache = "stale"
            /\ ~obs[c].wrote)

\* the payload carries a non-empty "error" member (under "weather", "result"
\* or "raw" once normalized): what the code and its callers test with
\* raw.get("error")
ErrorMarked(d) == d.body.shape = "dict" /\ d.body.err \notin {NoKey, ""}

\* C5 as stated: if no row exists for the key, or its age is >= MAX_STALE,
\* and the live fetch fails, getCachedOrFetch returns a response whose
\* payload carries an explicit error marker, whatever the category and the
\* cause of the failure, an exception with an empty message included.
C5_ExplicitError ==
    \A c \in Callers :
        (Returned(c) /\ obs[c].had \in {"none", "old"} /\ FetchFailed(c))
        => (resp[c].kind = "resp" /\ ErrorMarked(resp[c].data))

\* the row of the call's key holds P, written now, and a lookup with the
\* call's ttl is a hit returning the normalized P
StoredFresh(c, P) ==
    /\ Rows(self, key[c]) # {}
    /\ FirstRow(self, key[c]).json = P
    /\ FirstRow(self, key[c]).lastUpdated = now
    /\ \A a \in 0..(ttl[c] - 1) :
          LET row == [FirstRow(self, key[c]) EXCEPT !.lastUpdated = now - a]
          IN /\ now - row.lastUpdated < ttl[c]
             /\ HitData(self, row) = _normalizeForReturn(self, P)
    /\ _get_cached(self, key[c], ttl[c], FALSE)
         = ProviderResponse(_normalizeForReturn(self, P), "hit")

\* C6 as stated: when the stored row's age is >= ttl, the provider is under
\* budget and the live fetch succeeds at time T with payload P,
\* getCachedOrFetch returns the normalized P with status miss and the row
\* then holds P with lastUpdated = T, so that a later call before T + ttl
\* is a hit returning P.
C6_AsStated ==
    \A c \in Callers :
        (Returned(c) /\ obs[c].had \in {"stale", "old"} /\ obs[c].ub
            /\ obs[c].exit = "ok")
        => (/\ resp[c] = ProviderResponse(_normalizeForReturn(self, raw[c]), "miss")
            /\ StoredFresh(c, raw[c]))

\* C6: when the stored row's age is >= ttl, the provider is under budget,
\* the live fetch succeeds at time T with a payload P that has no non-empty
\* "error" member and the write-back to the store succeeds,
\* getCachedOrFetch returns the normalized P with status miss and the row
\* then holds P with lastUpdated = T, so that a later call before T + ttl
\* is a hit returning P.
C6_MissStores ==
    \A c \in Callers :
        (Returned(c) /\ obs[c].had \in {"stale", "old"} /\ obs[c].ub
            /\ obs[c].exit = "ok" /\ ~IsError(raw[c]) /\ obs[c].wrote)
        => (/\ resp[c] = ProviderResponse(_normalizeForReturn(self, raw[c]), "miss")
            /\ StoredFresh(c, raw[c]))

\* a call that replaced an aged row by what it fetched
C6_Witness ==
    \E c \in Callers :
        /\ Returned(c)
        /\ obs[c].had \in {"stale", "old"}
        /\ obs[c].ub
        /\ obs[c].exit = "ok"
        /\ obs[c].wrote
        /\ raw[c] = Obj(1)
        /\ now > 0
        /\ resp[c].cache = "miss"

----------------------------------------------------------------------------
(* Properties of the executor and the ledger, checked under SpecConc,       *)
(* SpecSr and SpecLedger.                                                   *)

\* the provider has an entry in DAILY_BUDGETS
Budgeted == DAILY_BUDGETS(self) # NoBudget

\* C7 as stated: for a provider with a daily budget B, the usage count of
\* one day never exceeds B, for any number of concurrent safeRequest callers
\* and any interleaving of their budget checks and usage increments.
C7_AsStated ==
    Budgeted => \A i \in 1..Len(usage) : usage[i].count <= DAILY_BUDGETS(self)

\* C7: for a provider with a positive daily budget B and N concurrent
\* safeRequest callers, the usage count of one day never exceeds B + N - 1:
\* every caller that passed the budget check below B may still add one.
C7_SoftBudget ==
    (Budgeted /\ DAILY_BUDGETS(self) > 0)
    => \A i \in 1..Len(usage) : usage[i].count <= DAILY_BUDGETS(self) + NCallers - 1

\* every caller passed the check at B - 1 and added its unit
C7_Witness ==
    /\ Budgeted
    /\ \E i \in 1..Len(usage) : usage[i].count = DAILY_BUDGETS(self) + NCallers - 1
    /\ \A c \in Callers : pc[c] = "done" /\ cnt[c].gate = "under" /\ cnt[c].added = 1

\* C8: when under_budget(provider) is false at entry, safeRequest returns
\* the budget-exhausted error result at once: no HTTP call, no limiter
\* token, no sleep, and the ledger as it was.
C8_GateClosed ==
    [][\A c \in Callers :
          (pc[c] = "sr_gate" /\ pc'[c] # "sr_gate" /\ OverBudget)
          => (/\ pc'[c] \in {"done", "post"}
              /\ raw'[c] = [shape |-> "dict", err |-> "budget_exhausted", v |-> 1]
              /\ mode[c] = "sr" => (/\ cnt'[c].https = 0
                                    /\ cnt'[c].acqs = 0
                                    /\ cnt'[c].sleeps = 0
                                    /\ cnt'[c].added = 0)
              /\ usage' = usage
              /\ lim' = lim
              /\ now' = now)]_vars

\* a safeRequest call turned away at the gate
C8_Witness ==
    \E c \in Callers :
        /\ mode[c] = "sr"
        /\ pc[c] = "done"
        /\ cnt[c].gate = "over"
        /\ cnt[c].exit = "budget"
        /\ OverBudget
        /\ raw[c].err = "budget_exhausted"

\* callers that have returned from add_usage
Added == {c \in Callers : mode[c] = "au" /\ pc[c] = "done"}

\* C9: M concurrent add_usage(provider, 1) calls against a ledger without a
\* row for (provider, today) leave exactly one such row and get_usage = M,
\* whatever the interleaving of their row creations and increments: no
\* increment is lost and no caller is left without a row to increment.
C9_AtomicLedger ==
    /\ Len(usage) <= 1
    /\ get_usage(self) = Cardinality(Added)
    /\ \A c \in Callers : pc[c] = "au_update" => au[c].pk \in 1..Len(usage)
    /\ Added = Callers
         => /\ Cardinality(UsageRows(self, TodayKey(now))) = 1
            /\ get_usage(self) = NCallers

\* every caller has returned
C9_Witness ==
    /\ Added = Callers
    /\ Len(usage) = 1
    /\ usage[1].count = NCallers

\* the sum of the counts of the ledger's rows
RECURSIVE SumCounts(_)
SumCounts(rows) == IF rows = << >> THEN 0 ELSE Head(rows).count + SumCounts(Tail(rows))

RetriedErrors == {"HTTP 429", "HTTP 500", "timeout"}

\* C11: safeRequest makes at most maxRetries HTTP attempts per call; an
\* attempt that ends in 429, 5xx, timeout or connection error is followed by
\* a backoff sleep and the next attempt; a 2xx on any attempt is returned as
\* the call's result; and with every attempt used the call returns the
\* error result that carries the last attempt's error.
C11_BoundedRetries ==
    [][\A c \in Callers :
          /\ cnt'[c].https <= MaxRetries
          /\ attempt'[c] <= MaxRetries
          /\ (pc[c] = "sr_http" /\ pc'[c] # "sr_http" /\ lastErr'[c] \in RetriedErrors)
               => (/\ pc'[c] = "sr_backoff"
                   /\ wake'[c] = now + backoff[c]
                   /\ cnt'[c].https = cnt[c].https + 1)
          /\ (pc[c] = "sr_backoff" /\ pc'[c] # "sr_backoff") => pc'[c] = "sr_loop"
          /\ (pc[c] = "sr_loop" /\ pc'[c] # "sr_loop" /\ attempt[c] < MaxRetries)
               => (pc'[c] \in {"sr_http", "lim_sleep"} /\ attempt'[c] = attempt[c] + 1)
          /\ (pc[c] = "sr_http" /\ pc'[c] = "au_get")
               => (~(raw'[c] \in {ErrResult(m) : m \in RetriedErrors})
                   /\ cnt'[c].https <= MaxRetries)
          /\ (mode[c] = "sr" /\ pc[c] \in {"au_get", "au_create", "au_update"}
                 /\ pc'[c] = "done")
               => (raw'[c] = raw[c] /\ cnt'[c].exit = "ok")
          /\ (pc[c] = "sr_loop" /\ pc'[c] # "sr_loop" /\ attempt[c] >= MaxRetries)
               => (/\ pc'[c] \in {"done", "post"}
                   /\ lastErr[c] # None
                   /\ raw'[c] = [shape |-> "dict", err |-> lastErr[c], v |-> 1]
                   /\ mode[c] = "sr" => (/\ cnt'[c].exit = "fail"
                                         /\ cnt'[c].https = MaxRetries
                                         /\ cnt'[c].added = 0))]_vars

\* a call whose three attempts all ended in a 5xx
C11_Witness ==
    \E c \in Callers :
        /\ mode[c] = "sr"
        /\ pc[c] = "done"
        /\ cnt[c].exit = "fail"
        /\ cnt[c].https = MaxRetries
        /\ raw[c] = ErrResult("HTTP 500")

\* C12: when an attempt receives a status in 400-499 other than 429,
\* safeRequest leaves the retry loop at once: no further HTTP attempt, no
\* backoff sleep and no usage increment follow, and an error result is
\* returned.
C12_ClientErrorAborts ==
    [][\A c \in Callers :
          /\ (pc[c] = "sr_http" /\ pc'[c] # "sr_http" /\ lastErr'[c] = "HTTP 404")
               => (/\ pc'[c] = "sr_fail"
                   /\ cnt'[c].https = cnt[c].https + 1
                   /\ cnt'[c].sleeps = cnt[c].sleeps
                   /\ wake'[c] = wake[c]
                   /\ usage' = usage
                   /\ now' = now)
          /\ pc[c] = "sr_fail" => now' = now
          /\ (pc[c] = "sr_fail" /\ pc'[c] # "sr_fail")
               => (/\ pc'[c] \in {"done", "post"}
                   /\ raw'[c] = [shape |-> "dict", err |-> lastErr[c], v |-> 1]
                   /\ lastErr[c] # None
                   /\ usage' = usage
                   /\ lim' = lim
                   /\ mode[c] = "sr" => (/\ cnt'[c].exit = "fail"
                                         /\ cnt'[c].https = cnt[c].https
                                         /\ cnt'[c].acqs = cnt[c].acqs
                                         /\ cnt'[c].sleeps = cnt[c].sleeps
                                         /\ cnt'[c].added = 0))]_vars

\* a call given up on its second attempt, after one retried 5xx: the third
\* attempt is never made
C12_Witness ==
    \E c \in Callers :
        /\ mode[c] = "sr"
        /\ pc[c] = "done"
        /\ cnt[c].exit = "fail"
        /\ raw[c] = ErrResult("HTTP 404")
        /\ cnt[c].https = 2
        /\ cnt[c].added = 0

----------------------------------------------------------------------------
(* Properties of the rate limiter, checked under SpecLimSeq and SpecLim. *)

\* acquire() calls of caller c that have returned
AcquiresReturned(c) == cnt[c].acqs - (IF pc[c] = "idle" THEN 0 ELSE 1)

\* C13 as stated: for a limiter with capacity C and rate R that starts full,
\* N > C sequential acquire() calls by one caller take at least (N - C) / R
\* seconds from the start of the first to the return of the last.
C13_Pacing ==
    \A c \in Callers :
        AcquiresReturned(c) * TokUnit > LimCapacity(self)
        => (now - obs[c].start) * LimRate(self)
             >= AcquiresReturned(c) * TokUnit - LimCapacity(self)

\* C14 as stated: in every reachable state of a limiter, after any sequence
\* or interleaving of acquire calls, 0 <= tokens <= capacity.
C14_TokensInRange == 0 <= lim.tokens /\ lim.tokens <= LimCapacity(self)

\* acquire() calls of caller c that returned without sleeping
AdmittedAtOnce(c) ==
    cnt[c].acqs - cnt[c].sleeps - (IF pc[c] \in {"idle", "acq_sleep"} THEN 0 ELSE 1)

RECURSIVE SumAdmitted(_)
SumAdmitted(S) ==
    IF S = {} THEN 0
    ELSE LET c == CHOOSE x \in S : TRUE
         IN AdmittedAtOnce(c) + SumAdmitted(S \ {c})

\* no caller is between two statements of acquire()
Quiet == \A c \in Callers : pc[c] \in {"idle", "acq_sleep"}

\* C15 as stated: concurrent acquire() calls on one limiter are mutually
\* safe, the outcome being that of some serial order of the calls.  In
\* every serial order no token is spent twice: the calls admitted without
\* waiting never outnumber the capacity plus the refill of the time passed,
\* and before any time has passed the bucket holds the capacity less one
\* token per call admitted, its timestamp being the time of the calls.
C15_SerialOutcome ==
    /\ SumAdmitted(Callers) * TokUnit <= LimCapacity(self) + now * LimRate(self)
    /\ (Quiet /\ now = 0)
         => (/\ lim.tokens = LimCapacity(self) - SumAdmitted(Callers) * TokUnit
             /\ lim.last = 0)


\* C16: the store holds at most one row per (category, key, providerSource)
\* in every reachable state, also when several callers that missed on the
\* same key each run _upsert; and each write that lands leaves its payload in
\* that row, so the surviving payload is that of the write that landed last.
OneRowPerKey ==
    \A p \in Providers, k \in Keys \cup {OtherKey} : Cardinality(Rows(p, k)) <= 1

LandedWriteShows ==
    \A c \in Callers :
        (pc[c] = "up_write" /\ pc'[c] = "done")
            => \A i \in 1..Len(store') :
                  (/\ store'[i].table = Category(self)
                   /\ store'[i].key = key[c]
                   /\ store'[i].providerSource = self)
                     => store'[i].json = raw[c]

C16_OneRowPerKey == []OneRowPerKey /\ [][LandedWriteShows]_vars


\* the step in which a call whose fetch succeeded returns without having
\* written the store: _upsert raised (lines 288-289)
WriteBackFailed(c) ==
    /\ mode[c] = "gcf"
    /\ pc[c] = "post"
    /\ pc'[c] = "done"
    /\ obs[c].exit = "ok"
    /\ ~IsError(raw[c])
    /\ ~obs'[c].wrote

\* C17: if the live fetch succeeds but the cache write-back (_upsert)
\* fails, getCachedOrFetch still returns the freshly fetched, normalized
\* data with cache status miss, raises nothing, and leaves the store as it
\* was before the call.
WriteFailureServed ==
    \A c \in Callers :
        /\ WriteBackFailed(c)
             => (/\ resp'[c] = ProviderResponse(_normalizeForReturn(self, raw[c]), "miss")
                 /\ store' = store)
        /\ (mode[c] = "gcf" /\ pc[c] # "post") => store' = store

C17_WriteFailureServed == [][WriteFailureServed]_vars


\* C18: for every outcome of the provider call (timeout, connection error,
\* 429, 5xx, other 4xx, 2xx with unparseable body, 2xx with a body of any
\* JSON shape) and every category, getCachedOrFetch returns a
\* ProviderResponse and never raises an exception to its caller.
C18_NeverRaises ==
    \A c \in Callers : Returned(c) => resp[c].kind = "resp"


\* C20: under_budget(provider) is true exactly when no daily budget is
\* configured for the provider or get_usage(provider) < the configured
\* budget, for every configured budget value including 0 and every usage
\* count.
C20_UnderBudgetIff ==
    \A c \in Callers :
        (mode[c] = "ub" /\ pc[c] = "done")
        => (obs[c].ub <=> (\/ DAILY_BUDGETS(self) = NoBudget
                           \/ get_usage(self) < DAILY_BUDGETS(self)))


\* the call's read of the usage ledger failed
LedgerDown(c) == obs[c].entry = "ledger_down" \/ cnt[c].gate = "ledger_down"

\* C19: when reading the usage ledger fails (storage error in get_usage),
\* the gateway fails open: under_budget is treated as true, no exception
\* reaches the caller of safeRequest or getCachedOrFetch, and the live fetch
\* proceeds.
C19_FailOpen ==
    \A c \in Callers :
        (pc[c] = "done" /\ LedgerDown(c))
        => (/\ resp[c].kind # "raise"
            /\ (IF mode[c] = "gcf" THEN obs[c].exit ELSE cnt[c].exit) \in {"ok", "fail"})

C22_GetterFindsFetched ==
    \A q \in Queries, c \in Callers :
        (/\ Returned(c)
         /\ key[c] = OwmKey(q)
         /\ obs[c].exit = "ok"
         /\ obs[c].wrote)
        => getOpenWeatherMapFromDb(sha256Stable(q)) # NoData

\* the (parameter, value) pairs a call sends to the provider
ParamSet(a) ==
    {<<ProviderParam(a[i][1]), ProviderValue(a[i][1], a[i][2])>> :
        i \in {j \in 1..Len(a) : Truthy(a[j][2])}}

\* the same keyword arguments, in any order
SameArgs(a, b) == {a[i] : i \in 1..Len(a)} = {b[i] : i \in 1..Len(b)}

\* a dict with the items S
IsDictOf(d, S) ==
    /\ {d[i] : i \in 1..Len(d)} = S
    /\ \A i, j \in 1..Len(d) : i # j => d[i][1] # d[j][1]

\* C23: for multi-parameter flight queries the cache key depends only on
\* the set of (parameter, value) pairs: two fetchAviationStackFlight calls
\* with the same parameters supplied in different orders use the same key,
\* that key equals sha256Stable of the provider-parameter dict, and calls
\* whose parameter sets differ use different keys.
C23_KeyOfParamSet ==
    \A c \in Callers :
        (mode[c] = "astack" /\ pc[c] = "done")
        => /\ \A b \in Calls :
                /\ SameArgs(kwargs[c], b) => AstackKey(b) = key[c]
                /\ (ParamSet(b) = ParamSet(kwargs[c])) <=> (AstackKey(b) = key[c])
           /\ \A d \in [1..Cardinality(ParamSet(kwargs[c])) -> ParamSet(kwargs[c])] :
                IsDictOf(d, ParamSet(kwargs[c])) => key[c] = sha256StableDict(d)

\* a call with two filters, which another call passes in the other order
C23_Witness ==
    \E c \in Callers :
        /\ mode[c] = "astack"
        /\ pc[c] = "done"
        /\ Cardinality(ParamSet(kwargs[c])) = 2
        /\ \E b \in Calls : b # kwargs[c] /\ SameArgs(kwargs[c], b)

\* C24: within safeRequest every HTTP attempt, including each retry, is
\* preceded by exactly one limiter.acquire() on that provider's limiter, so
\* the number of acquires in a call equals the number of HTTP attempts in
\* that call.
C24_AcquirePerAttempt ==
    \A c \in Callers :
        mode[c] = "sr"
        => /\ cnt[c].https <= cnt[c].acqs
           /\ cnt[c].acqs <= cnt[c].https + 1
           /\ pc[c] = "sr_http" => cnt[c].acqs = cnt[c].https + 1
           /\ pc[c] = "done" => cnt[c].acqs = cnt[c].https

\* a call that made three attempts
C24_Witness ==
    \E c \in Callers :
        /\ mode[c] = "sr"
        /\ pc[c] = "done"
        /\ cnt[c].https = MaxRetries
        /\ cnt[c].acqs = MaxRetries

RECURSIVE Pow2(_)
Pow2(n) == IF n = 0 THEN 1 ELSE 2 * Pow2(n - 1)

\* C25: inside one safeRequest call the base backoff before the k-th
\* retryable failure's sleep is min(2^(k-1), 16) seconds (1, 2, 4, 8, 16,
\* 16, ...), it never exceeds 16, and every safeRequest invocation starts
\* again at 1 regardless of earlier invocations.
BackoffSteps ==
    \A c \in Callers :
        /\ backoff'[c] <= 16
        /\ (pc[c] = "sr_http" /\ pc'[c] = "sr_backoff")
             => (/\ cnt'[c].https = cnt[c].https + 1
                 /\ wake'[c] - now = Min(Pow2(cnt'[c].https - 1), 16))
        /\ (pc[c] = "sr_gate" /\ pc'[c] = "sr_loop") => backoff'[c] = 1

C25_BackoffSchedule == [][BackoffSteps]_vars

\* the sixth retryable failure of a call begins its sleep of 16 seconds, the
\* second at the cap
C25_Witness ==
    \E c \in Callers :
        /\ pc[c] = "sr_backoff"
        /\ cnt[c].https = 6
        /\ wake[c] - now = 16

\* the UTC calendar day of time t
DayOf(t) == t \div DayLen

\* C26: when the UTC calendar day changes, get_usage(provider) returns 0
\* until the first add_usage of the new day, that add_usage creates a new
\* (provider, day) row, and the rows of earlier days are never modified or
\* deleted; within one day the count never decreases.
LedgerSteps ==
    /\ Len(usage') >= Len(usage)
    /\ \A i \in 1..Len(usage) :
          /\ usage'[i].provider = usage[i].provider
          /\ usage'[i].yyyymmdd = usage[i].yyyymmdd
          /\ usage'[i].count >= usage[i].count
          /\ usage[i].yyyymmdd < DayOf(now) => usage'[i] = usage[i]
    /\ DayOf(now') > DayOf(now) => get_usage(self)' = 0
    /\ (get_usage(self) = 0 /\ usage' = usage /\ now' = now) => get_usage(self)' = 0
    /\ (Len(usage') > Len(usage))
         => (/\ Len(usage') = Len(usage) + 1
             /\ \A i \in 1..Len(usage) : usage[i].yyyymmdd < DayOf(now)
             /\ usage'[Len(usage')] = [provider |-> self, yyyymmdd |-> DayOf(now), count |-> 0])

C26_DailyReset == [][LedgerSteps]_vars

\* the first add_usage of a later day has made its row next to an earlier
\* day's
C26_Witness ==
    /\ Len(usage) = 2
    /\ usage[1].yyyymmdd < usage[2].yyyymmdd
    /\ usage[1].count > 0
    /\ usage[2].yyyymmdd = DayOf(now)
    /\ usage[2].count = 1

\* C27: getCachedOrFetch writes to the store only after a successful live
\* fetch: whenever fetchFn returns an error result (whatever its message,
\* including an empty one) the store's rows and their lastUpdated
\* timestamps are unchanged, and no operation of the gateway ever deletes a
\* row.
StoreSteps ==
    /\ Len(store') >= Len(store)
    /\ \A i \in 1..Len(store) :
          /\ store'[i].table = store[i].table
          /\ store'[i].key = store[i].key
          /\ store'[i].providerSource = store[i].providerSource
    /\ store' # store
         => \E c \in Callers : mode[c] = "gcf" /\ pc[c] = "post" /\ obs[c].exit = "ok"
    /\ \A c \in Callers :
          (mode[c] = "gcf" /\ pc[c] = "post" /\ FetchFailed(c)) => store' = store

C27_WritesOnlyOnSuccess == [][StoreSteps]_vars

\* the larger of two numbers
Larger(a, b) == IF a >= b THEN a ELSE b

\* the response was served from the store
FromStore(c) == Returned(c) /\ resp[c].cache \in {"hit", "stale"}

\* C28: every response served from the store respects the age windows:
\* status hit implies the row's age < ttlSeconds, status stale implies
\* ttlSeconds <= age < MAX_STALE[category], and a row whose age is >=
\* max(ttlSeconds, MAX_STALE[category]) is never returned by
\* getCachedOrFetch.
C28_AgeWindows ==
    \A c \in Callers :
        FromStore(c)
        => /\ Rows(self, key[c]) # {}
           /\ resp[c].data = HitData(self, FirstRow(self, key[c]))
           /\ resp[c].cache = "hit" => now - FirstRow(self, key[c]).lastUpdated < ttl[c]
           /\ resp[c].cache = "stale"
                => /\ ttl[c] <= now - FirstRow(self, key[c]).lastUpdated
                   /\ now - FirstRow(self, key[c]).lastUpdated < MAX_STALE(Category(self))
           /\ now - FirstRow(self, key[c]).lastUpdated
                < Larger(ttl[c], MAX_STALE(Category(self)))

\* a row served as stale in the last second of its window
C28_Witness ==
    \E c \in Callers :
        /\ FromStore(c)
        /\ resp[c].cache = "stale"
        /\ now - FirstRow(self, key[c]).lastUpdated = MAX_STALE(Category(self)) - 1
        /\ ttl[c] < MAX_STALE(Category(self)) - 1

\* the call returned a hit, and the call before it, on the same key, was a
\* miss that returned a successfully fetched payload
HitAfterMiss(c) ==
    /\ Returned(c)
    /\ resp[c].cache = "hit"
    /\ earlier.key = key[c]
    /\ earlier.cache = "miss"
    /\ earlier.ok

InAcquire(c) == mode[c] = "acq" /\ pc[c] # "idle"

\* C30: SimpleRateLimiter.acquire(cost) has no failure outcome: for every
\* limiter state and every cost, a caller that has entered acquire is
\* eventually given the return value True, after a finite wait.
C30_AcquireReturns ==
    \A c \in Callers : InAcquire(c) ~> (pc[c] = "idle" /\ acq[c].ret)

\* acquire has returned True after sleeping for a cost no bucket holds
C30_Witness ==
    \E c \in Callers :
        /\ mode[c] = "acq"
        /\ pc[c] = "idle"
        /\ acq[c].ret
        /\ cnt[c].sleeps > 0
        /\ lim.tokens = 0
        /\ now > LimHorizon

====
